---- MODULE Spec2Model ----
(***************************************************************************)
(* Order fulfilment of the Gldcart backend: OrderService.placeOrder and    *)
(* OrderService.processOrder (src/src/modules/order/services/              *)
(* order.service.ts), run by concurrent request handlers against one       *)
(* document store.  Every await of the source is a step boundary; the      *)
(* synchronous code between two awaits is one atomic step.                 *)
(***************************************************************************)
EXTENDS Integers, Sequences, FiniteSets, TLC

\* ------------------------------------------------------------- bounds
\* Requests are numbered in their order of arrival.
NumPlaceCalls == 2      \* concurrent placeOrder requests
NumProcessCalls == 2    \* concurrent processOrder requests
MaxStock == 2           \* largest seeded stock of a product
MaxQty == 2             \* largest quantity of a line item

PlaceCalls == 1..NumPlaceCalls
Calls == 1..NumProcessCalls
Products == {"A", "B"}
OrderIds == 1..NumPlaceCalls
Customers == {"cus_1"}
Amounts == {10}

\* ------------------------------------------------------------- data
PENDING == "PENDING"
TargetStatuses == {"PAID", "FAILED", "CANCELLED"}
OrderStatus == {PENDING} \cup TargetStatuses

Item(prod, q) == [id |-> prod, quantity |-> q]

\* Line-item lists a CreateOrderDto may carry.
ItemLists ==
  { <<Item("A", 1)>>,
    <<Item("B", 1), Item("A", MaxQty)>> }

CreateOrderDto == [items : ItemLists, amount : Amounts]

\* Status a freshly constructed order document has.
OrderSchemaDefaultStatus == PENDING

NoWrites == [x \in {} |-> 0]
NoOrder == [status |-> "null", items |-> <<>>, amount |-> 0]

VARIABLES
  orders,      \* order collection: _id -> document (committed state)
  stock,       \* product collection: product -> quantity in stock (committed)
  nextId,      \* next _id the order model generates
  stripe,      \* createPaymentIntent requests the gateway received
  emails,      \* confirmation e-mails handed to the e-mail service
  ppc,         \* placeOrder call -> position
  newOrder,    \* placeOrder call -> _id of its newOrder (0: none)
  presult,     \* placeOrder call -> what the caller got
  pc,          \* processOrder call -> position
  orderId,     \* processOrder call -> argument orderId
  status,      \* processOrder call -> argument status
  order,       \* processOrder call -> local `order` returned by updateOrder
  session,     \* processOrder call -> transaction state of its ClientSession
  ended,       \* processOrder call -> endSession was called
  txnOrders,   \* processOrder call -> order writes pending in its transaction
  txnStock,    \* processOrder call -> stock writes pending in its transaction
  stale,       \* processOrder call -> documents committed by others since its snapshot
  error,       \* processOrder call -> error caught by the catch block
  result,      \* processOrder call -> what the caller got
  log,         \* processOrder call -> collaborator calls it made, in order
  stock0,      \* the stock seeded at start (history)
  carts,       \* cart collection: _id -> document
  nextCartId,  \* next _id the cart model generates
  apc,         \* concurrent addItem call -> position
  aUserId,     \* concurrent addItem call -> argument userId
  aNewItem,    \* concurrent addItem call -> argument newItem
  existingCart,\* concurrent addItem call -> document findOne returned
  cartLast     \* the last CartService call that returned, and how (history)

vars == <<orders, stock, nextId, stripe, emails, ppc, newOrder, presult,
          pc, orderId, status, order, session, ended, txnOrders, txnStock,
          stale, error, result, log, stock0,
          carts, nextCartId, apc, aUserId, aNewItem, existingCart, cartLast>>

placeVars == <<nextId, stripe, ppc, newOrder, presult>>
callVars == <<pc, orderId, status, order, session, ended, txnOrders, txnStock,
              stale, error, result, log>>
cartVars == <<carts, nextCartId, apc, aUserId, aNewItem, existingCart, cartLast>>
orderVars == <<orders, stock, emails, stock0, placeVars, callVars>>

\* ------------------------------------------------------------- cart data
NumAddCalls == 2        \* concurrent addItem requests
MaxCarts == 2           \* largest cart _id a request names
MaxItemQty == 2         \* largest quantity of a cart item
MaxShipping == 2        \* longest list of an AddShippingOptionsDto

AddCalls == 1..NumAddCalls
CartIds == 1..MaxCarts
Users == {"u1", "u2"}
ItemIds == {"i1", "i2"}
ShippingOptions == {"standard", "express"}

\* An ObjectId and its conversions: the cast of a string mongoose does when a
\* value is stored, and ObjectId.toString().
ObjectId(str) == [oid |-> str]
toString(objectId) == objectId.oid

CreateItemDto == [id : ItemIds, quantity : 1..MaxItemQty]
UpdateItemDto == [quantity : 1..MaxItemQty]

\* The lists of options an AddShippingOptionsDto may carry, repeats included.
AddShippingOptionsDto ==
  UNION {[1..n -> ShippingOptions] : n \in 1..MaxShipping}

NoCall == [op |-> "none", cart |-> 0, arg |-> "-", err |-> "none"]
NoItem == [id |-> "-", quantity |-> 0]
NoCart == [id |-> 0, doc |-> [customer |-> "-", items |-> <<>>, shipping |-> <<>>]]

CartInit ==
  /\ carts = NoWrites
  /\ nextCartId = 1
  /\ apc = [a \in AddCalls |-> "idle"]
  /\ aUserId = [a \in AddCalls |-> "-"]
  /\ aNewItem = [a \in AddCalls |-> NoItem]
  /\ existingCart = [a \in AddCalls |-> NoCart]
  /\ cartLast = NoCall

Init ==
  /\ orders = NoWrites
  /\ stock \in [Products -> 1..MaxStock]
  /\ stock0 = stock
  /\ nextId = 1
  /\ stripe = {}
  /\ emails = {}
  /\ ppc = [c \in PlaceCalls |-> "idle"]
  /\ newOrder = [c \in PlaceCalls |-> 0]
  /\ presult = [c \in PlaceCalls |-> "none"]
  /\ pc = [p \in Calls |-> "idle"]
  /\ orderId = [p \in Calls |-> 0]
  /\ status = [p \in Calls |-> "none"]
  /\ order = [p \in Calls |-> NoOrder]
  /\ session = [p \in Calls |-> "none"]
  /\ ended = [p \in Calls |-> FALSE]
  /\ txnOrders = [p \in Calls |-> NoWrites]
  /\ txnStock = [p \in Calls |-> NoWrites]
  /\ stale = [p \in Calls |-> [orders |-> {}, stock |-> {}]]
  /\ error = [p \in Calls |-> "none"]
  /\ result = [p \in Calls |-> "none"]
  /\ log = [p \in Calls |-> <<>>]
  /\ CartInit

\* ------------------------------------------------------------- placeOrder

\* createOrder: the document `new this.orderModel(order)` builds.
createOrder(dto) ==
  [status |-> OrderSchemaDefaultStatus, items |-> dto.items, amount |-> dto.amount]

\* placeOrder with the rejection of the save swallowed: the payment intent is
\* requested for a document that was never persisted.
placeOrder_ignoreSaveError(c) ==
  /\ ppc[c] = "idle"
  /\ \A b \in PlaceCalls : b < c => ppc[b] # "idle"
  /\ \E dto \in CreateOrderDto, saved \in BOOLEAN :
       /\ nextId' = nextId + 1
       /\ orders' = IF saved THEN (nextId :> createOrder(dto)) @@ orders ELSE orders
       /\ newOrder' = [newOrder EXCEPT ![c] = nextId]
       /\ ppc' = [ppc EXCEPT ![c] = "createPaymentIntent"]
       /\ presult' = presult
  /\ UNCHANGED <<stock, stripe, emails, stock0>>
  /\ UNCHANGED callVars
  /\ UNCHANGED cartVars

\* placeOrder returning the stored order of an equal request instead of creating
\* a new one.
placeOrder_deduplicate(c) ==
  /\ ppc[c] = "idle"
  /\ \A b \in PlaceCalls : b < c => ppc[b] # "idle"
  /\ \E dto \in CreateOrderDto, saved \in BOOLEAN :
       LET same == {id \in DOMAIN orders : orders[id].items = dto.items
                                             /\ orders[id].amount = dto.amount} IN
       /\ nextId' = nextId + 1
       /\ IF saved
            THEN /\ orders' = IF same = {} THEN (nextId :> createOrder(dto)) @@ orders
                                ELSE orders
                 /\ newOrder' = [newOrder EXCEPT ![c] =
                                   IF same = {} THEN nextId ELSE CHOOSE id \in same : TRUE]
                 /\ ppc' = [ppc EXCEPT ![c] = "createPaymentIntent"]
                 /\ presult' = presult
            ELSE /\ orders' = orders
                 /\ newOrder' = newOrder
                 /\ ppc' = [ppc EXCEPT ![c] = "done"]
                 /\ presult' = [presult EXCEPT ![c] = "SaveError"]
  /\ UNCHANGED <<stock, stripe, emails, stock0>>
  /\ UNCHANGED callVars
  /\ UNCHANGED cartVars

\* placeOrder up to the end of `await this.createOrder(order)`: the save either
\* persists the new document or rejects, and a rejection leaves placeOrder.
placeOrder(c) ==
  /\ ppc[c] = "idle"
  /\ \A b \in PlaceCalls : b < c => ppc[b] # "idle"
  /\ \E dto \in CreateOrderDto, saved \in BOOLEAN :
       /\ nextId' = nextId + 1
       /\ IF saved
            THEN /\ orders' = (nextId :> createOrder(dto)) @@ orders
                 /\ newOrder' = [newOrder EXCEPT ![c] = nextId]
                 /\ ppc' = [ppc EXCEPT ![c] = "createPaymentIntent"]
                 /\ presult' = presult
            ELSE /\ orders' = orders
                 /\ newOrder' = newOrder
                 /\ ppc' = [ppc EXCEPT ![c] = "done"]
                 /\ presult' = [presult EXCEPT ![c] = "SaveError"]
  /\ UNCHANGED <<stock, stripe, emails, stock0>>
  /\ UNCHANGED callVars
  /\ UNCHANGED cartVars

\* placeOrder deleting the order it created when the gateway rejects.
createPaymentIntent_rollback(c) ==
  /\ ppc[c] = "createPaymentIntent"
  /\ \E customer \in Customers, ok \in BOOLEAN :
       /\ stripe' = stripe \cup
            {[by |-> c, order_id |-> newOrder[c], customer |-> customer, ok |-> ok]}
       /\ presult' = [presult EXCEPT ![c] = IF ok THEN "client_secret" ELSE "GatewayError"]
       /\ orders' = IF ok THEN orders
                    ELSE [id \in DOMAIN orders \ {newOrder[c]} |-> orders[id]]
  /\ ppc' = [ppc EXCEPT ![c] = "done"]
  /\ UNCHANGED <<stock, nextId, emails, newOrder, stock0>>
  /\ UNCHANGED callVars
  /\ UNCHANGED cartVars

\* placeOrder from `await this.stripeService.createPaymentIntent(...)` to its
\* return: the gateway answers with an intent or rejects.
createPaymentIntent(c) ==
  /\ ppc[c] = "createPaymentIntent"
  /\ \E customer \in Customers, ok \in BOOLEAN :
       /\ stripe' = stripe \cup
            {[by |-> c, order_id |-> newOrder[c], customer |-> customer, ok |-> ok]}
       /\ presult' = [presult EXCEPT ![c] = IF ok THEN "client_secret" ELSE "GatewayError"]
  /\ ppc' = [ppc EXCEPT ![c] = "done"]
  /\ UNCHANGED <<orders, stock, nextId, emails, newOrder, stock0>>
  /\ UNCHANGED callVars
  /\ UNCHANGED cartVars

\* ------------------------------------------------------------- transactions

InTxn(p) == session[p] = "active"

\* A write of transaction p to a document conflicts when another open
\* transaction holds an uncommitted write to it, or when it was committed by
\* another transaction after p's snapshot was taken.
OrderConflict(p, id) ==
  \/ id \in stale[p].orders
  \/ \E q \in Calls \ {p} : InTxn(q) /\ id \in DOMAIN txnOrders[q]

StockConflict(p, prod) ==
  \/ prod \in stale[p].stock
  \/ \E q \in Calls \ {p} : InTxn(q) /\ prod \in DOMAIN txnStock[q]

\* commitTransaction was called on the session of p.
CommitCalled(p) == \E i \in DOMAIN log[p] : log[p][i] = "commitTransaction"

\* The snapshot of a transaction is taken by its first operation.
HasSnapshot(p) == InTxn(p) /\ pc[p] # "updateOrder"

\* ------------------------------------------------------------- processOrder

\* processOrder up to `session.startTransaction()`.
processOrder(p) ==
  /\ pc[p] = "idle"
  /\ \A q \in Calls : q < p => pc[q] # "idle"
  /\ \E id \in OrderIds, st \in TargetStatuses :
       /\ orderId' = [orderId EXCEPT ![p] = id]
       /\ status' = [status EXCEPT ![p] = st]
  /\ session' = [session EXCEPT ![p] = "active"]
  /\ log' = [log EXCEPT ![p] = <<"startSession", "startTransaction">>]
  /\ pc' = [pc EXCEPT ![p] = "updateOrder"]
  /\ UNCHANGED <<orders, stock, emails, stock0, order, ended, txnOrders, txnStock,
                 stale, error, result>>
  /\ UNCHANGED placeVars
  /\ UNCHANGED cartVars

\* updateOrder without its null check: processOrder goes on to read `order.items`
\* of null, which throws a TypeError inside the try block.
updateOrder_noNullCheck(p) ==
  /\ pc[p] = "updateOrder"
  /\ log' = [log EXCEPT ![p] = Append(@, "findOneAndUpdate")]
  /\ IF orderId[p] \notin DOMAIN orders
       THEN /\ error' = [error EXCEPT ![p] = "TypeError"]
            /\ pc' = [pc EXCEPT ![p] = "catch"]
            /\ UNCHANGED <<order, txnOrders>>
       ELSE IF OrderConflict(p, orderId[p])
         THEN /\ error' = [error EXCEPT ![p] = "TransactionConflict"]
              /\ pc' = [pc EXCEPT ![p] = "catch"]
              /\ UNCHANGED <<order, txnOrders>>
         ELSE LET doc == [orders[orderId[p]] EXCEPT !.status = status[p]] IN
              /\ txnOrders' = [txnOrders EXCEPT ![p] = (orderId[p] :> doc)]
              /\ order' = [order EXCEPT ![p] = doc]
              /\ pc' = [pc EXCEPT ![p] = "updateInventory"]
              /\ error' = error
  /\ UNCHANGED <<orders, stock, emails, stock0, orderId, status, session, ended,
                 txnStock, stale, result>>
  /\ UNCHANGED placeVars
  /\ UNCHANGED cartVars

\* updateOrder with the session option left out of findOneAndUpdate: the status
\* is written outside the transaction.
updateOrder_noSession(p) ==
  /\ pc[p] = "updateOrder"
  /\ log' = [log EXCEPT ![p] = Append(@, "findOneAndUpdate")]
  /\ IF orderId[p] \notin DOMAIN orders
       THEN /\ error' = [error EXCEPT ![p] = "NotFound"]
            /\ pc' = [pc EXCEPT ![p] = "catch"]
            /\ UNCHANGED <<order, orders>>
       ELSE LET doc == [orders[orderId[p]] EXCEPT !.status = status[p]] IN
            /\ orders' = [orders EXCEPT ![orderId[p]] = doc]
            /\ order' = [order EXCEPT ![p] = doc]
            /\ pc' = [pc EXCEPT ![p] = "updateInventory"]
            /\ error' = error
  /\ UNCHANGED <<stock, emails, stock0, orderId, status, session, ended, txnOrders,
                 txnStock, stale, result>>
  /\ UNCHANGED placeVars
  /\ UNCHANGED cartVars

\* updateOrder replacing the document by the update instead of setting its
\* status field: the line items and the amount are lost.
updateOrder_replaceDocument(p) ==
  /\ pc[p] = "updateOrder"
  /\ log' = [log EXCEPT ![p] = Append(@, "findOneAndUpdate")]
  /\ IF orderId[p] \notin DOMAIN orders
       THEN /\ error' = [error EXCEPT ![p] = "NotFound"]
            /\ pc' = [pc EXCEPT ![p] = "catch"]
            /\ UNCHANGED <<order, txnOrders>>
       ELSE IF OrderConflict(p, orderId[p])
         THEN /\ error' = [error EXCEPT ![p] = "TransactionConflict"]
              /\ pc' = [pc EXCEPT ![p] = "catch"]
              /\ UNCHANGED <<order, txnOrders>>
         ELSE LET doc == [status |-> status[p], items |-> <<>>, amount |-> 0] IN
              /\ txnOrders' = [txnOrders EXCEPT ![p] = (orderId[p] :> doc)]
              /\ order' = [order EXCEPT ![p] = doc]
              /\ pc' = [pc EXCEPT ![p] = "updateInventory"]
              /\ error' = error
  /\ UNCHANGED <<orders, stock, emails, stock0, orderId, status, session, ended,
                 txnStock, stale, result>>
  /\ UNCHANGED placeVars
  /\ UNCHANGED cartVars

\* updateOrder: findOneAndUpdate({_id}, {status}, {new: true, session}), then the
\* null check.
updateOrder(p) ==
  /\ pc[p] = "updateOrder"
  /\ log' = [log EXCEPT ![p] = Append(@, "findOneAndUpdate")]
  /\ IF orderId[p] \notin DOMAIN orders
       THEN /\ error' = [error EXCEPT ![p] = "NotFound"]
            /\ pc' = [pc EXCEPT ![p] = "catch"]
            /\ UNCHANGED <<order, txnOrders>>
       ELSE IF OrderConflict(p, orderId[p])
         THEN /\ error' = [error EXCEPT ![p] = "TransactionConflict"]
              /\ pc' = [pc EXCEPT ![p] = "catch"]
              /\ UNCHANGED <<order, txnOrders>>
         ELSE LET doc == [orders[orderId[p]] EXCEPT !.status = status[p]] IN
              /\ txnOrders' = [txnOrders EXCEPT ![p] = (orderId[p] :> doc)]
              /\ order' = [order EXCEPT ![p] = doc]
              /\ pc' = [pc EXCEPT ![p] = "updateInventory"]
              /\ error' = error
  /\ UNCHANGED <<orders, stock, emails, stock0, orderId, status, session, ended,
                 txnStock, stale, result>>
  /\ UNCHANGED placeVars
  /\ UNCHANGED cartVars

\* InventoryService.updateInventory(items, session): the decrements of the line
\* items, in order, inside the caller's transaction.
RECURSIVE adjust(_, _, _)
adjust(items, view, p) ==
  IF items = <<>> THEN [err |-> "none", view |-> view]
  ELSE LET it == Head(items) IN
       IF StockConflict(p, it.id) THEN [err |-> "TransactionConflict", view |-> view]
       ELSE IF view[it.id] < it.quantity THEN [err |-> "InsufficientStock", view |-> view]
       ELSE adjust(Tail(items), [view EXCEPT ![it.id] = @ - it.quantity], p)

ItemProducts(items) == {items[i].id : i \in DOMAIN items}

\* updateInventory called without the session: the decrements are written to the
\* product collection at once, outside the transaction.
updateInventory_noSession(p) ==
  /\ pc[p] = "updateInventory"
  /\ log' = [log EXCEPT ![p] = Append(@, "updateInventory")]
  /\ LET r == adjust(order[p].items, stock, p) IN
       IF r.err = "none"
         THEN /\ stock' = r.view
              /\ pc' = [pc EXCEPT ![p] = "commit"]
              /\ error' = error
         ELSE /\ error' = [error EXCEPT ![p] = r.err]
              /\ pc' = [pc EXCEPT ![p] = "catch"]
              /\ stock' = stock
  /\ UNCHANGED <<orders, emails, stock0, orderId, status, order, session,
                 ended, txnOrders, txnStock, stale, result>>
  /\ UNCHANGED placeVars
  /\ UNCHANGED cartVars

\* updateInventory with the adjuster's rejection swallowed: processOrder goes on
\* to commit although a decrement failed.
updateInventory_swallowError(p) ==
  /\ pc[p] = "updateInventory"
  /\ log' = [log EXCEPT ![p] = Append(@, "updateInventory")]
  /\ LET r == adjust(order[p].items, stock, p) IN
       /\ txnStock' = [txnStock EXCEPT ![p] =
              IF r.err = "none"
                THEN [prod \in ItemProducts(order[p].items) |-> r.view[prod]]
                ELSE NoWrites]
       /\ pc' = [pc EXCEPT ![p] = "commit"]
       /\ error' = error
  /\ UNCHANGED <<orders, stock, emails, stock0, orderId, status, order, session,
                 ended, txnOrders, stale, result>>
  /\ UNCHANGED placeVars
  /\ UNCHANGED cartVars

\* updateInventory handing only the first line item to the adjuster.
updateInventory_firstItemOnly(p) ==
  /\ pc[p] = "updateInventory"
  /\ log' = [log EXCEPT ![p] = Append(@, "updateInventory")]
  /\ LET first == <<Head(order[p].items)>>
         r == adjust(first, stock, p) IN
       IF r.err = "none"
         THEN /\ txnStock' = [txnStock EXCEPT ![p] =
                     [prod \in ItemProducts(first) |-> r.view[prod]]]
              /\ pc' = [pc EXCEPT ![p] = "commit"]
              /\ error' = error
         ELSE /\ error' = [error EXCEPT ![p] = r.err]
              /\ pc' = [pc EXCEPT ![p] = "catch"]
              /\ txnStock' = txnStock
  /\ UNCHANGED <<orders, stock, emails, stock0, orderId, status, order, session,
                 ended, txnOrders, stale, result>>
  /\ UNCHANGED placeVars
  /\ UNCHANGED cartVars

\* updateInventory: `await this.inventoryService.updateInventory(order.items, session)`.
updateInventory(p) ==
  /\ pc[p] = "updateInventory"
  /\ log' = [log EXCEPT ![p] = Append(@, "updateInventory")]
  /\ LET r == adjust(order[p].items, stock, p) IN
       IF r.err = "none"
         THEN /\ txnStock' = [txnStock EXCEPT ![p] =
                     [prod \in ItemProducts(order[p].items) |-> r.view[prod]]]
              /\ pc' = [pc EXCEPT ![p] = "commit"]
              /\ error' = error
         ELSE /\ error' = [error EXCEPT ![p] = r.err]
              /\ pc' = [pc EXCEPT ![p] = "catch"]
              /\ txnStock' = txnStock
  /\ UNCHANGED <<orders, stock, emails, stock0, orderId, status, order, session,
                 ended, txnOrders, stale, result>>
  /\ UNCHANGED placeVars
  /\ UNCHANGED cartVars

\* The confirmation e-mail awaited before the commit instead of after it: a
\* notifier failure then reaches the catch block with the transaction still open.
commitTransaction_afterEmail(p) ==
  /\ pc[p] = "commit"
  /\ \E sent \in BOOLEAN :
       IF sent
         THEN /\ log' = [log EXCEPT ![p] =
                     @ \o <<"sendOrderConfirmationEmail", "commitTransaction", "endSession">>]
              /\ emails' = emails \cup {[order_id |-> orderId[p], status |-> order[p].status]}
              /\ orders' = txnOrders[p] @@ orders
              /\ stock' = txnStock[p] @@ stock
              /\ session' = [session EXCEPT ![p] = "committed"]
              /\ txnOrders' = [txnOrders EXCEPT ![p] = NoWrites]
              /\ txnStock' = [txnStock EXCEPT ![p] = NoWrites]
              /\ ended' = [ended EXCEPT ![p] = TRUE]
              /\ result' = [result EXCEPT ![p] = "ok"]
              /\ pc' = [pc EXCEPT ![p] = "done"]
              /\ error' = error
         ELSE /\ log' = [log EXCEPT ![p] = Append(@, "sendOrderConfirmationEmail")]
              /\ error' = [error EXCEPT ![p] = "EmailError"]
              /\ pc' = [pc EXCEPT ![p] = "catch"]
              /\ UNCHANGED <<orders, stock, session, txnOrders, txnStock, emails,
                             ended, result>>
  /\ UNCHANGED <<stock0, orderId, status, order, stale>>
  /\ UNCHANGED placeVars
  /\ UNCHANGED cartVars

\* `await session.commitTransaction()`: the pending writes become the committed
\* state, or the commit rejects and nothing is written.
commitTransaction(p) ==
  /\ pc[p] = "commit"
  /\ log' = [log EXCEPT ![p] = Append(@, "commitTransaction")]
  /\ \E ok \in BOOLEAN :
       IF ok
         THEN /\ orders' = txnOrders[p] @@ orders
              /\ stock' = txnStock[p] @@ stock
              /\ session' = [session EXCEPT ![p] = "committed"]
              /\ stale' = [q \in Calls |->
                    IF q # p /\ HasSnapshot(q)
                      THEN [orders |-> stale[q].orders \cup DOMAIN txnOrders[p],
                            stock |-> stale[q].stock \cup DOMAIN txnStock[p]]
                      ELSE stale[q]]
              /\ txnOrders' = [txnOrders EXCEPT ![p] = NoWrites]
              /\ txnStock' = [txnStock EXCEPT ![p] = NoWrites]
              /\ pc' = [pc EXCEPT ![p] = "email"]
              /\ error' = error
         ELSE /\ error' = [error EXCEPT ![p] = "CommitError"]
              /\ pc' = [pc EXCEPT ![p] = "catch"]
              /\ UNCHANGED <<orders, stock, session, stale, txnOrders, txnStock>>
  /\ UNCHANGED <<emails, stock0, orderId, status, order, ended, result>>
  /\ UNCHANGED placeVars
  /\ UNCHANGED cartVars

\* `await this.emailService.sendOrderConfirmationEmail(order)` and, when it
\* resolves, the finally block and the return.
sendOrderConfirmationEmail(p) ==
  /\ pc[p] = "email"
  /\ \E ok \in BOOLEAN :
       IF ok
         THEN /\ emails' = emails \cup {[order_id |-> orderId[p], status |-> order[p].status]}
              /\ log' = [log EXCEPT ![p] = @ \o <<"sendOrderConfirmationEmail", "endSession">>]
              /\ ended' = [ended EXCEPT ![p] = TRUE]
              /\ result' = [result EXCEPT ![p] = "ok"]
              /\ pc' = [pc EXCEPT ![p] = "done"]
              /\ error' = error
         ELSE /\ log' = [log EXCEPT ![p] = Append(@, "sendOrderConfirmationEmail")]
              /\ error' = [error EXCEPT ![p] = "EmailError"]
              /\ pc' = [pc EXCEPT ![p] = "catch"]
              /\ UNCHANGED <<emails, ended, result>>
  /\ UNCHANGED <<orders, stock, stock0, orderId, status, order, session, txnOrders,
                 txnStock, stale>>
  /\ UNCHANGED placeVars
  /\ UNCHANGED cartVars

\* The catch block with endSession at the end of the try block instead of in a
\* finally block: the session of a failed call is never released.
abortTransaction_noFinally(p) ==
  /\ pc[p] = "catch"
  /\ log' = [log EXCEPT ![p] = Append(@, "abortTransaction")]
  /\ IF InTxn(p)
       THEN /\ session' = [session EXCEPT ![p] = "aborted"]
            /\ txnOrders' = [txnOrders EXCEPT ![p] = NoWrites]
            /\ txnStock' = [txnStock EXCEPT ![p] = NoWrites]
       ELSE UNCHANGED <<session, txnOrders, txnStock>>
  /\ \E rejected \in BOOLEAN :
       /\ rejected => CommitCalled(p)
       /\ result' = [result EXCEPT ![p] =
                       IF rejected THEN "TransactionError" ELSE error[p]]
  /\ pc' = [pc EXCEPT ![p] = "done"]
  /\ UNCHANGED <<orders, stock, emails, stock0, orderId, status, order, stale, error,
                 ended>>
  /\ UNCHANGED placeVars
  /\ UNCHANGED cartVars

\* The catch block and the finally block: `await session.abortTransaction()`,
\* the error log, `throw error`, `session.endSession()`.  Aborting an open
\* transaction discards its pending writes.  A session whose commitTransaction
\* was already called cannot be aborted by the driver: committed writes stay, the
\* call is either ignored or rejected, and a rejection replaces the error the
\* caller gets.
abortTransaction(p) ==
  /\ pc[p] = "catch"
  /\ log' = [log EXCEPT ![p] = @ \o <<"abortTransaction", "endSession">>]
  /\ IF InTxn(p)
       THEN /\ session' = [session EXCEPT ![p] = "aborted"]
            /\ txnOrders' = [txnOrders EXCEPT ![p] = NoWrites]
            /\ txnStock' = [txnStock EXCEPT ![p] = NoWrites]
       ELSE UNCHANGED <<session, txnOrders, txnStock>>
  /\ \E rejected \in BOOLEAN :
       /\ rejected => CommitCalled(p)
       /\ result' = [result EXCEPT ![p] =
                       IF rejected THEN "TransactionError" ELSE error[p]]
  /\ ended' = [ended EXCEPT ![p] = TRUE]
  /\ pc' = [pc EXCEPT ![p] = "done"]
  /\ UNCHANGED <<orders, stock, emails, stock0, orderId, status, order, stale, error>>
  /\ UNCHANGED placeVars
  /\ UNCHANGED cartVars

\* ------------------------------------------------------------- CartService
\* Array.prototype.findIndex over the items with the predicate
\* item.id.toString() === id: the 0-based index of the first match, or -1.
RECURSIVE findIndexFrom(_, _, _)
findIndexFrom(items, id, k) ==
  IF k >= Len(items) THEN -1
  ELSE IF toString(items[k + 1].id) = id THEN k
  ELSE findIndexFrom(items, id, k + 1)

findIndex(items, id) == findIndexFrom(items, id, 0)

\* Array.prototype.indexOf of an option in the shipping list, or -1.
RECURSIVE indexOfFrom(_, _, _)
indexOfFrom(shipping, option, k) ==
  IF k >= Len(shipping) THEN -1
  ELSE IF shipping[k + 1] = option THEN k
  ELSE indexOfFrom(shipping, option, k + 1)

indexOf(shipping, option) == indexOfFrom(shipping, option, 0)

\* Array.prototype.includes.
includes(shipping, option) == \E k \in 1..Len(shipping) : shipping[k] = option

\* Array.prototype.splice(index, 1) with a 0-based index.
splice(seq, index) ==
  [k \in 1..(Len(seq) - 1) |-> IF k <= index THEN seq[k] ELSE seq[k + 1]]

\* Array.prototype.filter with the predicate !cart.shipping.includes(option):
\* every option of the request is tested against the list as it was stored.
RECURSIVE filter(_, _)
filter(options, shipping) ==
  IF options = <<>> THEN <<>>
  ELSE IF ~includes(shipping, Head(options))
       THEN <<Head(options)>> \o filter(Tail(options), shipping)
       ELSE filter(Tail(options), shipping)

\* What the items array stores for a DTO: the id is cast to an ObjectId.
castItem(dto) == [id |-> ObjectId(dto.id), quantity |-> dto.quantity]

\* cartModel.findOne({ customer: userId }): the first match in insertion
\* order, 0 for null.
findOne(userId) ==
  IF \E id \in DOMAIN carts : carts[id].customer = userId
  THEN CHOOSE id \in DOMAIN carts :
         /\ carts[id].customer = userId
         /\ \A other \in DOMAIN carts :
              carts[other].customer = userId => id <= other
  ELSE 0

\* The document createWithItem saves.
createWithItem(userId, newItem) ==
  [customer |-> userId, items |-> <<castItem(newItem)>>, shipping |-> <<>>]

addItemToExisting_alwaysPush(existing, newItem) ==
  [existing EXCEPT !.items = Append(@, castItem(newItem))]

\* The document addItemToExisting saves.
addItemToExisting(existing, newItem) ==
  LET itemExists == \E k \in 1..Len(existing.items) :
                      toString(existing.items[k].id) = newItem.id
  IN IF ~itemExists
     THEN [existing EXCEPT !.items = Append(@, castItem(newItem))]
     ELSE existing

Returned(op, id, arg) == [op |-> op, cart |-> id, arg |-> arg, err |-> "none"]
Threw(op, id, arg) == [op |-> op, cart |-> id, arg |-> arg, err |-> "NotFound"]

\* getByIdOrThrow: the cart exists.
getByIdOrThrow(id) == id \in DOMAIN carts

\* addItem as one request served alone.
addItem(userId, newItem) ==
  /\ \A a \in AddCalls : apc[a] \in {"idle", "done"}
  /\ LET found == findOne(userId) IN
       IF found = 0
       THEN /\ carts' = (nextCartId :> createWithItem(userId, newItem)) @@ carts
            /\ nextCartId' = nextCartId + 1
            /\ cartLast' = Returned("addItem", nextCartId, newItem.id)
       ELSE /\ carts' = [carts EXCEPT
                           ![found] = addItemToExisting(@, newItem)]
            /\ cartLast' = Returned("addItem", found, newItem.id)
            /\ UNCHANGED nextCartId
  /\ UNCHANGED <<apc, aUserId, aNewItem, existingCart>>
  /\ UNCHANGED orderVars

\* addItem of concurrent requests, up to the await of findOne.
addItem_findOne(a) ==
  /\ apc[a] = "idle"
  /\ \A b \in AddCalls : b < a => apc[b] # "idle"
  /\ \E userId \in Users, newItem \in CreateItemDto :
       /\ aUserId' = [aUserId EXCEPT ![a] = userId]
       /\ aNewItem' = [aNewItem EXCEPT ![a] = newItem]
       /\ existingCart' = [existingCart EXCEPT ![a] =
                             IF findOne(userId) = 0 THEN NoCart
                             ELSE [id |-> findOne(userId),
                                   doc |-> carts[findOne(userId)]]]
  /\ apc' = [apc EXCEPT ![a] = "found"]
  /\ UNCHANGED <<carts, nextCartId, cartLast>>
  /\ UNCHANGED orderVars

\* addItem of concurrent requests, from the branch on existingCart to the
\* save. The check for the item runs on the document findOne returned; the
\* save of a new cart is an insert, the save of a pushed item is a push onto
\* the stored array, and a document that was not modified is not written.
addItem_save(a) ==
  /\ apc[a] = "found"
  /\ IF existingCart[a].id = 0
     THEN /\ carts' = (nextCartId :> createWithItem(aUserId[a], aNewItem[a]))
                        @@ carts
          /\ nextCartId' = nextCartId + 1
          /\ cartLast' = Returned("addItem", nextCartId, aNewItem[a].id)
     ELSE /\ carts' =
               IF addItemToExisting(existingCart[a].doc, aNewItem[a])
                    # existingCart[a].doc
               THEN [carts EXCEPT ![existingCart[a].id].items =
                       Append(@, castItem(aNewItem[a]))]
               ELSE carts
          /\ cartLast' = Returned("addItem", existingCart[a].id,
                                  aNewItem[a].id)
          /\ UNCHANGED nextCartId
  /\ apc' = [apc EXCEPT ![a] = "done"]
  /\ UNCHANGED <<aUserId, aNewItem, existingCart>>
  /\ UNCHANGED orderVars

updateItem(id, updateItemDto) ==
  /\ IF ~getByIdOrThrow(id)
     THEN /\ cartLast' = Threw("updateItem", id, updateItemDto.id)
          /\ UNCHANGED carts
     ELSE LET itemIndex == findIndex(carts[id].items, updateItemDto.id) IN
          IF itemIndex = -1
          THEN /\ cartLast' = Threw("updateItem", id, updateItemDto.id)
               /\ UNCHANGED carts
          ELSE /\ carts' = [carts EXCEPT ![id].items[itemIndex + 1] =
                              castItem(updateItemDto)]
               /\ cartLast' = Returned("updateItem", id, updateItemDto.id)
  /\ UNCHANGED <<nextCartId, apc, aUserId, aNewItem, existingCart>>
  /\ UNCHANGED orderVars

removeItem(id, itemId) ==
  /\ IF ~getByIdOrThrow(id)
     THEN /\ cartLast' = Threw("removeItem", id, itemId)
          /\ UNCHANGED carts
     ELSE LET itemIndex == findIndex(carts[id].items, itemId) IN
          IF itemIndex = -1
          THEN /\ cartLast' = Threw("removeItem", id, itemId)
               /\ UNCHANGED carts
          ELSE /\ carts' = [carts EXCEPT ![id].items = splice(@, itemIndex)]
               /\ cartLast' = Returned("removeItem", id, itemId)
  /\ UNCHANGED <<nextCartId, apc, aUserId, aNewItem, existingCart>>
  /\ UNCHANGED orderVars

updateItemQuantity(id, itemId, updateItemDto) ==
  /\ IF ~getByIdOrThrow(id)
     THEN /\ cartLast' = Threw("updateItemQuantity", id, itemId)
          /\ UNCHANGED carts
     ELSE LET itemIndex == findIndex(carts[id].items, itemId) IN
          IF itemIndex = -1
          THEN /\ cartLast' = Threw("updateItemQuantity", id, itemId)
               /\ UNCHANGED carts
          ELSE /\ carts' = [carts EXCEPT ![id].items[itemIndex + 1].quantity =
                              updateItemDto.quantity]
               /\ cartLast' = Returned("updateItemQuantity", id, itemId)
  /\ UNCHANGED <<nextCartId, apc, aUserId, aNewItem, existingCart>>
  /\ UNCHANGED orderVars

addShippingOption(id, shippingOption) ==
  /\ IF ~getByIdOrThrow(id)
     THEN /\ cartLast' = Threw("addShippingOption", id, "-")
          /\ UNCHANGED carts
     ELSE LET newShippingOptions == filter(shippingOption, carts[id].shipping)
          IN /\ carts' = [carts EXCEPT
                            ![id].shipping = @ \o newShippingOptions]
             /\ cartLast' = Returned("addShippingOption", id, "-")
  /\ UNCHANGED <<nextCartId, apc, aUserId, aNewItem, existingCart>>
  /\ UNCHANGED orderVars

removeShippingOption(id, shippingOption) ==
  /\ IF ~getByIdOrThrow(id)
     THEN /\ cartLast' = Threw("removeShippingOption", id, shippingOption)
          /\ UNCHANGED carts
     ELSE LET index == indexOf(carts[id].shipping, shippingOption) IN
          IF index > -1
          THEN /\ carts' = [carts EXCEPT ![id].shipping = splice(@, index)]
               /\ cartLast' = Returned("removeShippingOption", id,
                                       shippingOption)
          ELSE /\ cartLast' = Threw("removeShippingOption", id, shippingOption)
               /\ UNCHANGED carts
  /\ UNCHANGED <<nextCartId, apc, aUserId, aNewItem, existingCart>>
  /\ UNCHANGED orderVars

\* ------------------------------------------------------------- specification
Next ==
  \/ \E c \in PlaceCalls : placeOrder(c)
  \/ \E c \in PlaceCalls : createPaymentIntent(c)
  \/ \E p \in Calls : processOrder(p)
  \/ \E p \in Calls : updateOrder(p)
  \/ \E p \in Calls : updateInventory(p)
  \/ \E p \in Calls : commitTransaction(p)
  \/ \E p \in Calls : sendOrderConfirmationEmail(p)
  \/ \E p \in Calls : abortTransaction(p)

Spec == Init /\ [][Next]_vars

\* Every awaited promise settles, so a call that can take its next step takes it.
CallStep(p) ==
  \/ updateOrder(p) \/ updateInventory(p) \/ commitTransaction(p)
  \/ sendOrderConfirmationEmail(p) \/ abortTransaction(p)

\* One seeded unit of every product: each exit path of processOrder is reachable.
FairInit == Init /\ stock = [prod \in Products |-> 1]

FairSpec == FairInit /\ [][Next]_vars /\ \A p \in Calls : WF_vars(CallStep(p))

\* Concurrent addItem requests against the cart collection.
CartNext ==
  \/ \E a \in AddCalls : addItem_findOne(a)
  \/ \E a \in AddCalls : addItem_save(a)

CartSpec == FairInit /\ [][CartNext]_vars

\* Item requests served one after another.
CartItemsNext ==
  \/ \E userId \in Users, newItem \in CreateItemDto : addItem(userId, newItem)
  \/ \E id \in CartIds, dto \in CreateItemDto : updateItem(id, dto)
  \/ \E id \in CartIds, itemId \in ItemIds : removeItem(id, itemId)
  \/ \E id \in CartIds, itemId \in ItemIds, dto \in UpdateItemDto :
       updateItemQuantity(id, itemId, dto)

CartItemsSpec == FairInit /\ [][CartItemsNext]_vars

\* Shipping requests served one after another, on carts opened by addItem.
FirstItem == [id |-> "i1", quantity |-> 1]

CartShippingNext ==
  \/ \E userId \in Users : addItem(userId, FirstItem)
  \/ \E id \in CartIds, dto \in AddShippingOptionsDto :
       addShippingOption(id, dto)
  \/ \E id \in CartIds, option \in ShippingOptions :
       removeShippingOption(id, option)

CartShippingSpec == FairInit /\ [][CartShippingNext]_vars

\* ------------------------------------------------------------- helpers
Committed(p) == session[p] = "committed"
InFlight(p) == pc[p] \notin {"idle", "done"}

RECURSIVE Qty(_, _)
Qty(items, prod) ==
  IF items = <<>> THEN 0
  ELSE (IF Head(items).id = prod THEN Head(items).quantity ELSE 0) + Qty(Tail(items), prod)

\* Units of prod taken by the committed calls among 1..n, leaving out call x.
RECURSIVE Taken(_, _, _)
Taken(n, prod, x) ==
  IF n = 0 THEN 0
  ELSE (IF n # x /\ Committed(n) THEN Qty(order[n].items, prod) ELSE 0)
       + Taken(n - 1, prod, x)

\* Target statuses written by the committed calls, other than x, on order id.
CommittedTargets(id, x) ==
  {status[q] : q \in {r \in Calls \ {x} : Committed(r) /\ orderId[r] = id}}

\* ------------------------------------------------------------- claims

\* C1: processOrder is atomic.  When the inventory decrement fails for a line
\* item, then after processOrder has returned its transaction is aborted, the
\* stock of every product is what the other committed calls left (this call took
\* nothing, not even the line items decremented before the failing one), and the
\* status of its order is the one it had: PENDING or what another committed call
\* wrote.
C1_Atomic ==
  \A p \in Calls :
    result[p] = "InsufficientStock" =>
      /\ session[p] = "aborted"
      /\ txnOrders[p] = NoWrites /\ txnStock[p] = NoWrites
      /\ \A prod \in Products :
           stock[prod] = stock0[prod] - Taken(NumProcessCalls, prod, p)
      /\ orders[orderId[p]].status \in {PENDING} \cup CommittedTargets(orderId[p], p)

\* A call returned InsufficientStock for the order <<1 x B, MaxQty x A>> while B was
\* in stock: the decrement of B preceded the failing one of A.
C1_Witness ==
  \E p \in Calls :
    /\ result[p] = "InsufficientStock"
    /\ order[p].items = <<Item("B", 1), Item("A", MaxQty)>>
    /\ stock = stock0 /\ stock["B"] >= 1 /\ stock["A"] < MaxQty
    /\ orders[orderId[p]].status = PENDING

\* C2: of two concurrent processOrder calls on the same order id, at most one
\* commits the status transition and the inventory decrement.
C2_OneWinner ==
  \A p, q \in Calls :
    (p # q /\ InFlight(p) /\ InFlight(q) /\ orderId[p] = orderId[q])
      => ~(Committed(p) /\ Committed(q))

\* C3: no step changes the status of an order that is in a terminal status.
C3_TerminalStays ==
  [][\A id \in DOMAIN orders :
       orders[id].status \in TargetStatuses => orders'[id].status = orders[id].status]_vars

\* C4: when the notifier fails after the commit, the committed state is kept: the
\* transaction of the call stays committed, every product's stock is the seeded
\* stock less what the committed calls (this one included) took, and the order's
\* status is a target written by a committed call (this call's target when no other
\* call processed the order).
C4_CommitKept ==
  \A p \in Calls :
    error[p] = "EmailError" =>
      /\ Committed(p)
      /\ \A prod \in Products :
           /\ stock[prod] = stock0[prod] - Taken(NumProcessCalls, prod, 0)
           /\ stock0[prod] - stock[prod] >= Qty(order[p].items, prod)
      /\ orders[orderId[p]].status \in CommittedTargets(orderId[p], 0)
      /\ (CommittedTargets(orderId[p], p) = {} => orders[orderId[p]].status = status[p])

\* processOrder returned the notifier's error, the order is PAID and product A is
\* decremented.
C4_Witness ==
  \E p \in Calls :
    /\ result[p] = "EmailError" /\ pc[p] = "done" /\ status[p] = "PAID"
    /\ orders[orderId[p]].status = "PAID"
    /\ stock["A"] < stock0["A"]

\* C5: a call whose transaction committed returns successfully, whatever the
\* notifier did.
C5_NotifierSwallowed ==
  \A p \in Calls : (pc[p] = "done" /\ Committed(p)) => result[p] = "ok"

\* C6: placeOrder never returns a client secret, and never requests a payment
\* intent, for an order that was not persisted first: every request the gateway
\* received is tagged with the id of a stored order, a call that returned a secret has
\* its order stored and its intent granted, and a call whose save failed requested
\* no intent.
C6_PersistFirst ==
  /\ \A r \in stripe : r.order_id \in DOMAIN orders /\ r.order_id = newOrder[r.by]
  /\ \A c \in PlaceCalls :
       /\ ppc[c] = "createPaymentIntent" => newOrder[c] \in DOMAIN orders
       /\ presult[c] = "client_secret" =>
            /\ newOrder[c] \in DOMAIN orders
            /\ \E r \in stripe : r.by = c /\ r.ok /\ r.order_id = newOrder[c]
       /\ presult[c] = "SaveError" =>
            /\ newOrder[c] = 0
            /\ ~ \E r \in stripe : r.by = c

\* One placeOrder returned a secret for its stored order and another one failed
\* to save.
C6_Witness ==
  \E c, d \in PlaceCalls :
    /\ presult[c] = "client_secret" /\ newOrder[c] \in DOMAIN orders
    /\ presult[d] = "SaveError"

\* C7: when the gateway rejects the payment intent, the caller gets the gateway
\* error and the order stays stored; its status is PENDING unless a processOrder
\* call committed a transition of it.
C7_OrderKept ==
  /\ \A r \in stripe : ~r.ok => presult[r.by] = "GatewayError"
  /\ \A c \in PlaceCalls :
       presult[c] = "GatewayError" =>
         /\ \E r \in stripe : r.by = c /\ ~r.ok
         /\ newOrder[c] \in DOMAIN orders
         /\ orders[newOrder[c]].status \in {PENDING} \cup CommittedTargets(newOrder[c], 0)

\* A placeOrder got the gateway's error and its order is stored, PENDING.
C7_Witness ==
  \E c \in PlaceCalls :
    /\ presult[c] = "GatewayError"
    /\ newOrder[c] \in DOMAIN orders
    /\ orders[newOrder[c]].status = PENDING

\* The calls that committed.
Winners == {p \in Calls : Committed(p)}

\* Every call has returned, each processed its own order, and each order asks for
\* one unit of A, of which one unit was seeded.
LastUnitRace ==
  /\ stock0["A"] = 1
  /\ \A p \in Calls : pc[p] = "done" /\ order[p].items = <<Item("A", 1)>>
  /\ \A p, q \in Calls : p # q => orderId[p] # orderId[q]

NotFoundLog ==
  <<"startSession", "startTransaction", "findOneAndUpdate", "abortTransaction",
    "endSession">>

\* C9: updateOrder on an id that matches no stored order raises NotFound, and the
\* catch block aborts the transaction and re-raises NotFound; neither step changes
\* an order or a stock quantity, no inventory adjustment is attempted and no
\* notification is sent.
C9_NotFound ==
  [][\A p \in Calls :
       /\ (pc[p] = "updateOrder" /\ pc'[p] # "updateOrder"
             /\ orderId[p] \notin DOMAIN orders) =>
            /\ error'[p] = "NotFound" /\ pc'[p] = "catch"
            /\ txnOrders'[p] = NoWrites /\ txnStock'[p] = NoWrites
            /\ UNCHANGED <<orders, stock, emails>>
       /\ (pc[p] = "catch" /\ error[p] = "NotFound" /\ pc'[p] # "catch") =>
            /\ pc'[p] = "done" /\ result'[p] = "NotFound"
            /\ session'[p] = "aborted" /\ ended'[p]
            /\ log'[p] = NotFoundLog
            /\ UNCHANGED <<orders, stock, emails>>]_vars

\* A call on an id that matches no stored order returned NotFound.
C9_Witness ==
  \E p \in Calls :
    /\ pc[p] = "done" /\ result[p] = "NotFound"
    /\ orderId[p] \notin DOMAIN orders
    /\ stock = stock0

Last(seq) == seq[Len(seq)]
Has(seq, x) == \E i \in DOMAIN seq : seq[i] = x

\* C10: every session processOrder starts is eventually ended; a call returns
\* only with endSession as its last act; and when updateOrder or updateInventory
\* fails (NotFound, a write conflict, insufficient stock) the transaction is
\* aborted and the caller gets that very error.
C10_Released ==
  /\ \A p \in Calls : (session[p] # "none") ~> ended[p]
  /\ [][\A p \in Calls :
          (pc[p] # "done" /\ pc'[p] = "done") =>
            /\ ended'[p] /\ Last(log'[p]) = "endSession"
            /\ error[p] \in {"NotFound", "TransactionConflict", "InsufficientStock"} =>
                 /\ Has(log'[p], "abortTransaction")
                 /\ ~Has(log'[p], "commitTransaction")
                 /\ session'[p] = "aborted"
                 /\ result'[p] = error[p]]_vars

\* A call whose inventory adjustment failed has returned with its session ended.
C10_Witness ==
  \E p \in Calls :
    /\ pc[p] = "done" /\ ended[p]
    /\ result[p] = "InsufficientStock" /\ session[p] = "aborted"

CommitPrefix ==
  <<"startSession", "startTransaction", "findOneAndUpdate", "updateInventory",
    "commitTransaction">>

\* The first n entries of seq.
Prefix(seq, n) == [i \in 1..n |-> seq[i]]

\* C11: commitTransaction is called only after updateOrder and updateInventory
\* both succeeded, with the status write and a decrement for every line item's
\* product pending in the transaction; the notifier is called only by a call whose
\* commit succeeded; and every e-mail sent is for an order a committed call
\* processed.
C11_CommitThenNotify ==
  /\ \A p \in Calls :
       /\ pc[p] = "commit" =>
            /\ error[p] = "none"
            /\ order[p] # NoOrder
            /\ DOMAIN txnOrders[p] = {orderId[p]}
            /\ txnOrders[p][orderId[p]].status = status[p]
            /\ DOMAIN txnStock[p] = ItemProducts(order[p].items)
            /\ \A prod \in DOMAIN txnStock[p] :
                 txnStock[p][prod] = stock[prod] - Qty(order[p].items, prod)
       /\ Has(log[p], "commitTransaction") =>
            Len(log[p]) >= 5 /\ Prefix(log[p], 5) = CommitPrefix
       /\ Has(log[p], "sendOrderConfirmationEmail") =>
            /\ Committed(p)
            /\ Len(log[p]) >= 6
            /\ Prefix(log[p], 6) = Append(CommitPrefix, "sendOrderConfirmationEmail")
       /\ session[p] = "aborted" => ~Has(log[p], "sendOrderConfirmationEmail")
  /\ \A e \in emails :
       \E p \in Calls : Committed(p) /\ orderId[p] = e.order_id /\ status[p] = e.status

\* A call committed and its confirmation e-mail was sent, while another call was
\* aborted without any notification.
C11_Witness ==
  \E p, q \in Calls :
    /\ result[p] = "ok" /\ Committed(p)
    /\ [order_id |-> orderId[p], status |-> status[p]] \in emails
    /\ session[q] = "aborted" /\ pc[q] = "done"

\* C12: two placeOrder calls, also with equal requests, store two orders with
\* different ids, and the payment intents they request are two requests, each
\* tagged with the id of its own call's order; each order is PENDING unless a
\* processOrder call committed a transition of it.
C12_NoDeduplication ==
  /\ \A c, d \in PlaceCalls :
       (c # d /\ newOrder[c] # 0 /\ newOrder[d] # 0) =>
         /\ newOrder[c] # newOrder[d]
         /\ {newOrder[c], newOrder[d]} \subseteq DOMAIN orders
  /\ \A c \in PlaceCalls :
       newOrder[c] # 0 =>
         orders[newOrder[c]].status \in {PENDING} \cup CommittedTargets(newOrder[c], 0)
  /\ \A r, t \in stripe :
       /\ r.order_id = newOrder[r.by]
       /\ (r.by # t.by) => r.order_id # t.order_id
  /\ Cardinality(stripe) = Cardinality({c \in PlaceCalls : ppc[c] = "done" /\ newOrder[c] # 0})

\* Two calls with the same request each got a secret: two PENDING orders with the
\* same items and two intents.
C12_Witness ==
  \E c, d \in PlaceCalls :
    /\ c # d /\ presult[c] = "client_secret" /\ presult[d] = "client_secret"
    /\ newOrder[c] # newOrder[d]
    /\ orders[newOrder[c]] = orders[newOrder[d]]
    /\ orders[newOrder[c]].status = PENDING
    /\ Cardinality({r \in stripe : r.ok}) = 2

\* Position of the first x in seq (0: none).
IndexOf(seq, x) ==
  IF Has(seq, x) THEN CHOOSE i \in DOMAIN seq : seq[i] = x /\ \A j \in 1..(i - 1) : seq[j] # x
  ELSE 0

\* C13: abortTransaction is never called on a session whose transaction was
\* committed, and neither commitTransaction nor abortTransaction is called after
\* endSession.
C13_CommitOrAbort ==
  \A p \in Calls :
    /\ Committed(p) => ~Has(log[p], "abortTransaction")
    /\ Has(log[p], "endSession") =>
         /\ IndexOf(log[p], "endSession") = Len(log[p])
         /\ IndexOf(log[p], "commitTransaction") < Len(log[p])
         /\ IndexOf(log[p], "abortTransaction") < Len(log[p])

\* C14: the step in which a call's transaction commits sets the order's status
\* to the call's target and lowers the stock of every product by the total
\* quantity of the order's line items for it; products not on the order keep
\* their stock.
C14_CommitEffect ==
  [][\A p \in Calls :
       (~Committed(p) /\ session'[p] = "committed") =>
         /\ orders'[orderId[p]].status = status[p]
         /\ orders[orderId[p]].items = order[p].items
         /\ \A prod \in Products :
              /\ stock'[prod] = stock[prod] - Qty(orders[orderId[p]].items, prod)
              /\ prod \notin ItemProducts(orders[orderId[p]].items) =>
                   stock'[prod] = stock[prod]]_vars

\* A call committed CANCELLED for the order <<1 x B, MaxQty x A>>: both products are
\* decremented.
C14_Witness ==
  \E p \in Calls :
    /\ Committed(p) /\ status[p] = "CANCELLED"
    /\ order[p].items = <<Item("B", 1), Item("A", MaxQty)>>
    /\ orders[orderId[p]].status = "CANCELLED"
    /\ stock["A"] = stock0["A"] - MaxQty
    /\ stock["B"] = stock0["B"] - 1

\* C15: no step changes anything of a stored order but its status, and the only
\* step that changes a status is the commit of a processOrder call on that order,
\* which leaves every other order as it was.
C15_OnlyStatus ==
  [][\A id \in DOMAIN orders :
       /\ id \in DOMAIN orders'
       /\ orders'[id] = [orders[id] EXCEPT !.status = orders'[id].status]
       /\ orders'[id] # orders[id] =>
            \E p \in Calls :
              /\ pc[p] = "commit" /\ session'[p] = "committed"
              /\ orderId[p] = id /\ orders'[id].status = status[p]
              /\ \A other \in DOMAIN orders \ {id} : orders'[other] = orders[other]]_vars

\* A call committed PAID on one order; its line items and amount are those it was
\* placed with and the other order is still PENDING.
C15_Witness ==
  \E p \in Calls, other \in DOMAIN orders :
    /\ Committed(p) /\ other # orderId[p]
    /\ orders[orderId[p]].status = "PAID" /\ status[p] = "PAID"
    /\ orders[orderId[p]].items = <<Item("B", 1), Item("A", MaxQty)>>
    /\ orders[orderId[p]].amount \in Amounts
    /\ orders[other].status = PENDING


\* ------------------------------------------------------------- cart claims
CartsOf(userId) == {id \in DOMAIN carts : carts[id].customer = userId}

ItemIdsOf(items) == [k \in 1..Len(items) |-> toString(items[k].id)]

NoDuplicate(seq) ==
  \A j, k \in 1..Len(seq) : seq[j] = seq[k] => j = k

\* C16: whatever the interleaving of concurrent addItem requests, a customer
\* has at most one cart.
C16_OneCartPerCustomer ==
  \A userId \in Users : Cardinality(CartsOf(userId)) <= 1

\* C17: after any sequence of addItem, updateItem, updateItemQuantity and
\* removeItem requests no cart holds two items with the same id, and an
\* addItem whose id the cart already holds leaves the collection as it was.
C17_ItemIdsUnique ==
  [][/\ \A id \in DOMAIN carts' : NoDuplicate(ItemIdsOf(carts'[id].items))
     /\ (/\ cartLast'.op = "addItem"
         /\ cartLast'.cart \in DOMAIN carts
         /\ findIndex(carts[cartLast'.cart].items, cartLast'.arg) # -1)
        => carts' = carts]_vars

\* An addItem returned for an id that a cart of two items already held at a
\* place other than the last.
C17_Witness ==
  /\ cartLast.op = "addItem"
  /\ cartLast.cart \in DOMAIN carts
  /\ Len(carts[cartLast.cart].items) = 2
  /\ findIndex(carts[cartLast.cart].items, cartLast.arg) = 0

\* C18: after any sequence of addShippingOption and removeShippingOption
\* requests, for every list a request carries, no cart's shipping list holds
\* an option twice; and a removeShippingOption of an option the list does not
\* hold throws NotFound and leaves the collection as it was.
C18_ShippingUnique ==
  [][/\ \A id \in DOMAIN carts' : NoDuplicate(carts'[id].shipping)
     /\ (/\ cartLast'.op = "removeShippingOption"
         /\ cartLast'.cart \in DOMAIN carts
         /\ ~includes(carts[cartLast'.cart].shipping, cartLast'.arg))
        => (cartLast'.err = "NotFound" /\ carts' = carts)]_vars

====
